---- MODULE Spec2Model ----
(***************************************************************************)
(* Model of the wallet inactivity watchdog of src/v.py.                    *)
(*                                                                         *)
(* The program is one asyncio event loop.  A task runs without             *)
(* interruption from one suspension point to the next, so every action     *)
(* below is the code between two awaits that really suspend:               *)
(*   - application.bot.send_message inside send_message (network I/O),     *)
(*   - asyncio.sleep,                                                      *)
(*   - websockets.connect / ws.send / ws.recv / the async-for over ws.     *)
(* fetch_parsed_transaction and the getSignaturesForAddress request use    *)
(* the blocking requests.post: they contain no await and never suspend.    *)
(*                                                                         *)
(* Tasks are kept in creation order in the sequence `tasks`; a task id is  *)
(* its index.  monitor_task = 0 stands for None.                           *)
(***************************************************************************)
EXTENDS Integers, Sequences, FiniteSets, TLC

VARIABLES
    now,                    \* time.monotonic(), in seconds
    USE_WEBSOCKETS,         \* set once at import (v.py:8-12)
    alert_chat_id,          \* TRUE once a chat id has been stored
    monitor_task,           \* id of the task held by the global, 0 = None
    monitor_pubkey,
    last_big_outflow_time,
    alert_sent,
    processed_sigs,
    tasks,                  \* every task created so far
    stopped,                \* history: /stop was the last command handled
    admitted                \* history: the signatures that passed the dedup test of a task
                            \* of the current target, since the target was assigned

vars == <<now, USE_WEBSOCKETS, alert_chat_id, monitor_task, monitor_pubkey,
          last_big_outflow_time, alert_sent, processed_sigs, tasks,
          stopped, admitted>>

(***************************************************************************)
(* Bounds of the model.                                                    *)
(***************************************************************************)
MaxTime == 80
TimeUnit == 40
MaxTasks == 6

(***************************************************************************)
(* Program constants (defaults of the configuration block).                *)
(***************************************************************************)
PAUSE_THRESHOLD == 40
POLL_SIGNATURES_INTERVAL == 20
RESTART_DELAY == 5
\* subscribe_account and the two tasks it creates (v.py:150-151).
TasksPerTarget == 3
LAMPORTS_PER_SOL == 1000000000
THRESHOLD_SOL_NUM == 1
THRESHOLD_SOL_DEN == 2

POSSIBLE_WALLETS == {"W1", "W2"}

None == "None"
NoTime == 0 - 1
NoSig == "nosig"
Sigs == {"s1", "s2"}

(***************************************************************************)
(* The ledger: the parsed transaction behind each signature.  A record is  *)
(* immutable; whether a fetch of it succeeds is the environment's choice.  *)
(***************************************************************************)
Transfer(src, dst, amount) ==
    [program |-> "system", type |-> "transfer", source |-> src,
     destination |-> dst, lamports |-> amount, lamportsOk |-> TRUE]

OtherInstr ==
    [program |-> "spl-token", type |-> "transfer", source |-> "W1",
     destination |-> "W2", lamports |-> 900000000, lamportsOk |-> TRUE]

\* A system transfer whose "lamports" field is not the text of an integer:
\* int() raises on it (v.py:122-125).
Unparsable(src, dst) ==
    [program |-> "system", type |-> "transfer", source |-> src,
     destination |-> dst, lamports |-> 800000000, lamportsOk |-> FALSE]

Ledger(sig) ==
    IF sig = "s1"
    THEN [instructions |-> <<Transfer("W1", "W2", 500000000)>>,
          innerInstructions |-> <<<<Transfer("W2", "W1", 600000000)>>,
                                  <<Transfer("W1", "W2", 500000000)>>>>]
    ELSE [instructions |-> <<Transfer("W1", "W2", 499999999), OtherInstr,
                             Unparsable("W2", "W1")>>,
          innerInstructions |-> <<<<Transfer("W2", "W1", 499999999)>>,
                                  <<Transfer("W1", "W2", 700000000)>>>>]

(***************************************************************************)
(* _process_instructions (v.py:116-130).                                   *)
(***************************************************************************)
ParseLamports(info) == IF info.lamportsOk THEN info.lamports ELSE 0

\* A test that leaves out the amount equal to the threshold.
Qualifies_above(instr, pubkey) ==
    /\ instr.program = "system"
    /\ instr.type = "transfer"
    /\ instr.source = pubkey
    /\ ParseLamports(instr) * THRESHOLD_SOL_DEN > THRESHOLD_SOL_NUM * LAMPORTS_PER_SOL

\* v.py:119-127.
Qualifies(instr, pubkey) ==
    /\ instr.program = "system"
    /\ instr.type = "transfer"
    /\ instr.source = pubkey
    /\ ParseLamports(instr) * THRESHOLD_SOL_DEN >= THRESHOLD_SOL_NUM * LAMPORTS_PER_SOL

\* A walk that stops after the top-level list.
RecordLists_top_only(tx) == <<tx.instructions>>

\* The instruction lists of one record in the order the callers walk them:
\* the top-level list, then each inner group (v.py:102-110, 174-181).
RecordLists(tx) == <<tx.instructions>> \o tx.innerInstructions

\* Walks the lists still to do up to the first qualifying transfer, where the
\* code writes the two globals and suspends in send_message.  hit = FALSE:
\* every list was walked with no qualifying transfer.  rest = what is left
\* to walk after the suspension.
RECURSIVE process_instructions(_, _)
process_instructions(todo, pubkey) ==
    IF todo = <<>> THEN [hit |-> FALSE, rest |-> <<>>]
    ELSE IF Head(todo) = <<>> THEN process_instructions(Tail(todo), pubkey)
    ELSE LET instr == Head(Head(todo))
             rest  == <<Tail(Head(todo))>> \o Tail(todo)
         IN  IF Qualifies(instr, pubkey)
             THEN [hit |-> TRUE, rest |-> rest]
             ELSE process_instructions(rest, pubkey)

(***************************************************************************)
(* fetch_parsed_transaction (v.py:65-76) and the dedup set.                *)
(***************************************************************************)
\* What a fetch gives its caller: the parsed record, nothing (None: the
\* request raised, or its "result" is null), or a "result" of a shape the
\* caller does not expect (not a dict), on which tx.get raises.
FetchOutcomes == {"record", "none", "bad"}

\* A dedup set that forgets a signature whose fetch returned nothing.
forget_failed(processed, sig, outcome) ==
    IF outcome = "none" THEN processed \ {sig} ELSE processed \cup {sig}

\* v.py:96-99 and 169-172: the signature is added before the fetch and is
\* not taken out, whatever the fetch returns.
mark_processed(processed, sig, outcome) == processed \cup {sig}

(***************************************************************************)
(* send_message (v.py:57-63).                                              *)
(***************************************************************************)
\* A send whose failure reaches the caller.
send_message_uncaught(delivered) == IF delivered THEN "returns" ELSE "raises"

\* What the caller sees when the bot delivers the text and when the bot
\* raises: the try block ends, or the except clause swallows the error.
send_message(delivered) == IF delivered THEN "returns" ELSE "returns"

(***************************************************************************)
(* Tasks.                                                                  *)
(***************************************************************************)
NewTask(kind, pubkey, gen, origin) ==
    [kind |-> kind, pubkey |-> pubkey, gen |-> gen, origin |-> origin,
     pc |-> "start", wake |-> 0, cancel |-> FALSE, sigs |-> <<>>, todo |-> <<>>]

Sleep(task, delay) == [task EXCEPT !.pc = "sleeping", !.wake = now + delay,
                                   !.sigs = <<>>, !.todo = <<>>]

TaskIds == 1..Len(tasks)
IsDone(t) == tasks[t].pc \in {"done", "cancelled"}
Finish(task, how) == [task EXCEPT !.pc = how, !.wake = 0, !.sigs = <<>>, !.todo = <<>>]
Runnable(t, kind, pc) ==
    /\ tasks[t].kind = kind
    /\ tasks[t].pc = pc
    /\ ~tasks[t].cancel

\* The generation of target assignments: each wallet_selected starts one.
CurrentGen == IF monitor_task = 0 THEN 0 ELSE tasks[monitor_task].gen

\* v.py:185: the guard of the restart.  Task.cancelled() is true only once
\* the cancellation has been delivered and the task has ended.
RestartAllowed == monitor_task # 0 /\ tasks[monitor_task].pc # "cancelled"

\* History: task t let the signatures `new` pass the dedup test.
Admit(t, new) == IF tasks[t].gen = CurrentGen THEN admitted \cup new ELSE admitted

Init ==
    /\ now = 0
    /\ USE_WEBSOCKETS \in BOOLEAN
    /\ alert_chat_id = FALSE
    /\ monitor_task = 0
    /\ monitor_pubkey = None
    /\ last_big_outflow_time = NoTime
    /\ alert_sent = FALSE
    /\ processed_sigs = {}
    /\ tasks = <<>>
    /\ stopped = FALSE
    /\ admitted = {}

(***************************************************************************)
(* Time advances on a grid of TimeUnit seconds.                            *)
(***************************************************************************)
\* Time passes only while every task waits for the stream or sleeps.  A task
\* that is created and not yet run, cancelled and not yet told, or asleep
\* past its deadline is in the loop's ready queue and runs before the loop
\* waits.  A send to the bot and the opening of the connection end, with a
\* reply or a timeout of the library, in less than one TimeUnit.  A step
\* that the bound on the number of tasks holds back does not hold time back.
Waiting(t) ==
    \/ IsDone(t)
    \/ ~tasks[t].cancel /\ tasks[t].pc = "listening"
    \/ ~tasks[t].cancel /\ tasks[t].pc = "sleeping" /\ now < tasks[t].wake
    \/ ~tasks[t].cancel /\ tasks[t].pc = "backoff"
          /\ (now < tasks[t].wake \/ (RestartAllowed /\ Len(tasks) >= MaxTasks))
    \/ ~tasks[t].cancel /\ tasks[t].pc = "started_msg" /\ Len(tasks) + 2 > MaxTasks

Advance ==
    /\ now + TimeUnit <= MaxTime
    /\ \A t \in TaskIds : Waiting(t)
    /\ now' = now + TimeUnit
    /\ UNCHANGED <<USE_WEBSOCKETS, alert_chat_id, monitor_task, monitor_pubkey,
                   last_big_outflow_time, alert_sent, processed_sigs, tasks,
                   stopped, admitted>>

(***************************************************************************)
(* Command handlers.                                                       *)
(***************************************************************************)
\* A reset that forgets to clear the dedup set.
reset_keeps_sigs ==
    /\ last_big_outflow_time' = now
    /\ alert_sent' = FALSE
    /\ UNCHANGED processed_sigs

\* v.py:210-212.
reset_on_select ==
    /\ last_big_outflow_time' = now
    /\ alert_sent' = FALSE
    /\ processed_sigs' = {}

\* wallet_selected, v.py:208-215 (the awaits before and after touch nothing).
\* MaxTasks bounds the tasks ever created; a target is assigned only while
\* the bound has room for the three tasks of every target assigned so far.
wallet_selected(pubkey) ==
    /\ Len(tasks) < MaxTasks
    /\ (CurrentGen + 1) * TasksPerTarget <= MaxTasks
    /\ alert_chat_id' = TRUE
    /\ reset_on_select
    /\ LET cancelled == IF monitor_task # 0 /\ ~IsDone(monitor_task)
                        THEN [tasks EXCEPT ![monitor_task].cancel = TRUE]
                        ELSE tasks
       IN  tasks' = Append(cancelled, NewTask("monitor", pubkey, CurrentGen + 1, "select"))
    /\ monitor_task' = Len(tasks) + 1
    /\ stopped' = FALSE
    /\ admitted' = {}
    /\ UNCHANGED <<now, USE_WEBSOCKETS, monitor_pubkey>>

\* stop, v.py:218-222.
stop ==
    /\ tasks' = IF monitor_task # 0 /\ ~IsDone(monitor_task)
                THEN [tasks EXCEPT ![monitor_task].cancel = TRUE]
                ELSE tasks
    /\ stopped' = TRUE
    /\ UNCHANGED <<now, USE_WEBSOCKETS, alert_chat_id, monitor_task, monitor_pubkey,
                   last_big_outflow_time, alert_sent, processed_sigs, admitted>>

\* Task.cancel(): CancelledError is thrown into the task at the await it is
\* suspended in.  It is a BaseException: `except Exception` does not catch it.
Cancelled(t) ==
    /\ tasks[t].cancel
    /\ ~IsDone(t)
    /\ tasks' = [tasks EXCEPT ![t] = Finish(@, "cancelled")]
    /\ UNCHANGED <<now, USE_WEBSOCKETS, alert_chat_id, monitor_task, monitor_pubkey,
                   last_big_outflow_time, alert_sent, processed_sigs, stopped, admitted>>

(***************************************************************************)
(* subscribe_account / subscribe_account_ws (v.py:143-194).                *)
(***************************************************************************)
\* v.py:188-194 and 143-148: the task's first run, up to the first send.
subscribe_account(t) ==
    /\ Runnable(t, "monitor", "start")
    /\ monitor_pubkey' = tasks[t].pubkey
    /\ IF USE_WEBSOCKETS
       THEN /\ last_big_outflow_time' = now
            /\ alert_sent' = FALSE
            /\ processed_sigs' = {}
            /\ tasks' = [tasks EXCEPT ![t].pc = "started_msg"]
       ELSE /\ tasks' = [tasks EXCEPT ![t].pc = "nows_msg"]
            /\ UNCHANGED <<last_big_outflow_time, alert_sent, processed_sigs>>
    /\ UNCHANGED <<now, USE_WEBSOCKETS, alert_chat_id, monitor_task, stopped, admitted>>

\* v.py:194: the send returns and subscribe_account ends.
subscribe_account_end(t) ==
    /\ Runnable(t, "monitor", "nows_msg")
    /\ tasks' = [tasks EXCEPT ![t] = Finish(@, "done")]
    /\ UNCHANGED <<now, USE_WEBSOCKETS, alert_chat_id, monitor_task, monitor_pubkey,
                   last_big_outflow_time, alert_sent, processed_sigs, stopped, admitted>>

\* v.py:182-184: an exception of the try block reaches the handler, which
\* sends the restart notice and starts the backoff sleep.  The send ends
\* within the time unit and changes nothing, so the model goes straight to
\* the sleep.
Caught(task) == [task EXCEPT !.pc = "backoff", !.wake = now + RESTART_DELAY, !.todo = <<>>]

\* v.py:149-161: the send of the start notice returned; the two background
\* tasks are created, then the connection is opened (connect, subscribe
\* request, first reply), which succeeds or raises.  A created task runs at
\* once up to its first await: check_elapsed_loop up to its sleep
\* (v.py:134-135), poll_signatures is due for its first cycle.
spawn_background(t) ==
    /\ Runnable(t, "monitor", "started_msg")
    /\ Len(tasks) + 2 <= MaxTasks
    /\ \E connected \in BOOLEAN :
         tasks' = Append(Append([tasks EXCEPT ![t] = IF connected
                                                      THEN [@ EXCEPT !.pc = "listening"]
                                                      ELSE Caught(@)],
                                Sleep(NewTask("tick", tasks[t].pubkey, tasks[t].gen, "spawn"),
                                      PAUSE_THRESHOLD)),
                         Sleep(NewTask("poll", tasks[t].pubkey, tasks[t].gen, "spawn"), 0))
    /\ UNCHANGED <<now, USE_WEBSOCKETS, alert_chat_id, monitor_task, monitor_pubkey,
                   last_big_outflow_time, alert_sent, processed_sigs, stopped, admitted>>

\* The stream ends with an error (ConnectionClosedError, a message that is
\* not JSON): the async-for raises.
ws_error(t) ==
    /\ Runnable(t, "monitor", "listening")
    /\ tasks' = [tasks EXCEPT ![t] = Caught(@)]
    /\ UNCHANGED <<now, USE_WEBSOCKETS, alert_chat_id, monitor_task, monitor_pubkey,
                   last_big_outflow_time, alert_sent, processed_sigs, stopped, admitted>>

\* The stream is closed cleanly: the async-for ends, the try block ends,
\* subscribe_account_ws returns (v.py:162, then nothing after 181).
ws_close(t) ==
    /\ Runnable(t, "monitor", "listening")
    /\ tasks' = [tasks EXCEPT ![t] = Finish(@, "done")]
    /\ UNCHANGED <<now, USE_WEBSOCKETS, alert_chat_id, monitor_task, monitor_pubkey,
                   last_big_outflow_time, alert_sent, processed_sigs, stopped, admitted>>

\* v.py:127-130: a qualifying transfer was found while walking `todo`.
\* v.py:176-181 / 104-110: otherwise the record is finished.
ws_classify(t, todo) ==
    LET r == process_instructions(todo, tasks[t].pubkey)
    IN  IF r.hit
        THEN /\ last_big_outflow_time' = now
             /\ alert_sent' = FALSE
             /\ tasks' = [tasks EXCEPT ![t].pc = "found_msg", ![t].todo = r.rest]
        ELSE /\ tasks' = [tasks EXCEPT ![t].pc = "listening", ![t].todo = <<>>]
             /\ UNCHANGED <<last_big_outflow_time, alert_sent>>

\* v.py:163-181: the body of the loop for a message that carries `sig`,
\* with the outcome of the fetch.  A record of unexpected shape raises at
\* v.py:174, inside the try block.
ws_deliver(t, sig, outcome) ==
    /\ Runnable(t, "monitor", "listening")
    /\ IF sig = NoSig \/ sig \in processed_sigs
       THEN UNCHANGED <<tasks, processed_sigs, admitted, last_big_outflow_time, alert_sent>>
       ELSE /\ processed_sigs' = mark_processed(processed_sigs, sig, outcome)
            /\ admitted' = Admit(t, {sig})
            /\ IF outcome = "record"
               THEN ws_classify(t, RecordLists(Ledger(sig)))
               ELSE IF outcome = "none"
               THEN UNCHANGED <<tasks, last_big_outflow_time, alert_sent>>
               ELSE /\ tasks' = [tasks EXCEPT ![t] = Caught(@)]
                    /\ UNCHANGED <<last_big_outflow_time, alert_sent>>
    /\ UNCHANGED <<now, USE_WEBSOCKETS, alert_chat_id, monitor_task, monitor_pubkey, stopped>>

\* v.py:162-181: one message of the stream.
ws_message(t) ==
    /\ Runnable(t, "monitor", "listening")
    /\ \E sig \in Sigs \cup {NoSig} :
       \E outcome \in FetchOutcomes :
          /\ sig \in processed_sigs \cup {NoSig} => outcome = "record"
          /\ ws_deliver(t, sig, outcome)

\* v.py:130 returns: the walk of the record goes on.
ws_resume(t) ==
    /\ Runnable(t, "monitor", "found_msg")
    /\ ws_classify(t, tasks[t].todo)
    /\ UNCHANGED <<now, USE_WEBSOCKETS, alert_chat_id, monitor_task, monitor_pubkey,
                   processed_sigs, stopped, admitted>>

\* v.py:185-186: after the sleep, a fresh subscribe_account task.
ws_restart(t) ==
    /\ Runnable(t, "monitor", "backoff")
    /\ now >= tasks[t].wake
    /\ IF RestartAllowed
       THEN /\ Len(tasks) < MaxTasks
            /\ tasks' = Append([tasks EXCEPT ![t] = Finish(@, "done")],
                               NewTask("monitor", tasks[t].pubkey, tasks[t].gen, "restart"))
       ELSE tasks' = [tasks EXCEPT ![t] = Finish(@, "done")]
    /\ UNCHANGED <<now, USE_WEBSOCKETS, alert_chat_id, monitor_task, monitor_pubkey,
                   last_big_outflow_time, alert_sent, processed_sigs, stopped, admitted>>

(***************************************************************************)
(* check_elapsed_loop (v.py:132-141).                                      *)
(***************************************************************************)
\* An elapsed time that is not taken from the last qualifying transfer.
ElapsedSinceZero == now

\* v.py:138.
Elapsed == now - last_big_outflow_time

\* v.py:139.
Expired == Elapsed >= PAUSE_THRESHOLD

\* v.py:136-140: the sleep is over; the alert is handed to the bot and the
\* task suspends in the send, or the loop goes back to sleep.
check_elapsed_loop(t) ==
    /\ Runnable(t, "tick", "sleeping")
    /\ now >= tasks[t].wake
    /\ IF last_big_outflow_time # NoTime /\ Expired
       THEN tasks' = [tasks EXCEPT ![t].pc = "alert_msg", ![t].wake = 0]
       ELSE tasks' = [tasks EXCEPT ![t] = Sleep(@, PAUSE_THRESHOLD)]
    /\ UNCHANGED <<now, USE_WEBSOCKETS, alert_chat_id, monitor_task, monitor_pubkey,
                   last_big_outflow_time, alert_sent, processed_sigs, stopped, admitted>>

\* v.py:140-141, then 135: send_message is over, the bot having delivered
\* the alert or not.  An exception that left send_message would leave
\* check_elapsed_loop as well, and end the task.
check_elapsed_after_send(t, delivered) ==
    /\ Runnable(t, "tick", "alert_msg")
    /\ IF send_message(delivered) = "returns"
       THEN /\ alert_sent' = TRUE
            /\ tasks' = [tasks EXCEPT ![t] = Sleep(@, PAUSE_THRESHOLD)]
       ELSE /\ tasks' = [tasks EXCEPT ![t] = Finish(@, "done")]
            /\ UNCHANGED alert_sent
    /\ UNCHANGED <<now, USE_WEBSOCKETS, alert_chat_id, monitor_task, monitor_pubkey,
                   last_big_outflow_time, processed_sigs, stopped, admitted>>

check_elapsed_latch(t) == \E delivered \in BOOLEAN : check_elapsed_after_send(t, delivered)

(***************************************************************************)
(* poll_signatures (v.py:78-114).                                          *)
(***************************************************************************)
\* What getSignaturesForAddress may list: the entries in the order given,
\* the newest first.  (An empty list leaves the state a failed request
\* leaves.)
SigLists == {<<"s1">>, <<"s2">>, <<NoSig, "s2", "s1">>}

\* The signatures of a list that a run would fetch.
Unseen(sigs) == {sigs[i] : i \in DOMAIN sigs} \ (processed_sigs \cup {NoSig})

\* The outcome of the fetch of sig in a run where the fetches of `ok` return
\* a record and those of `bad` a result of unexpected shape.
FetchOf(sig, ok, bad) ==
    IF sig \in ok THEN "record" ELSE IF sig \in bad THEN "bad" ELSE "none"

\* v.py:92-110: the entries still to visit, up to the first qualifying
\* transfer (hit, the task suspends in the send), to a record that makes
\* v.py:102 raise (the for loop is left for the handler at v.py:112), or to
\* the end of the list.
RECURSIVE poll_entries(_, _, _, _, _)
poll_entries(sigs, pubkey, processed, ok, bad) ==
    IF sigs = <<>>
    THEN [hit |-> FALSE, processed |-> processed, sigs |-> <<>>, todo |-> <<>>]
    ELSE LET sig     == Head(sigs)
             outcome == FetchOf(sig, ok, bad)
             marked  == mark_processed(processed, sig, outcome)
         IN  IF sig = NoSig \/ sig \in processed
             THEN poll_entries(Tail(sigs), pubkey, processed, ok, bad)
             ELSE IF outcome = "none"
             THEN poll_entries(Tail(sigs), pubkey, marked, ok, bad)
             ELSE IF outcome = "bad"
             THEN [hit |-> FALSE, processed |-> marked, sigs |-> <<>>, todo |-> <<>>]
             ELSE LET r == process_instructions(RecordLists(Ledger(sig)), pubkey)
                  IN  IF r.hit
                      THEN [hit |-> TRUE, processed |-> marked,
                            sigs |-> Tail(sigs), todo |-> r.rest]
                      ELSE poll_entries(Tail(sigs), pubkey, marked, ok, bad)

\* The record being walked, then the rest of the entries.
poll_run(todo, sigs, pubkey, ok, bad) ==
    LET r == process_instructions(todo, pubkey)
    IN  IF r.hit
        THEN [hit |-> TRUE, processed |-> processed_sigs, sigs |-> sigs, todo |-> r.rest]
        ELSE poll_entries(sigs, pubkey, processed_sigs, ok, bad)

\* v.py:127-130 on a hit; v.py:114 at the end of the cycle.
poll_step(t, q) ==
    /\ processed_sigs' = q.processed
    /\ admitted' = Admit(t, q.processed \ processed_sigs)
    /\ IF q.hit
       THEN /\ last_big_outflow_time' = now
            /\ alert_sent' = FALSE
            /\ tasks' = [tasks EXCEPT ![t].pc = "found_msg", ![t].wake = 0,
                                      ![t].sigs = q.sigs, ![t].todo = q.todo]
       ELSE /\ tasks' = [tasks EXCEPT ![t] = Sleep(@, POLL_SIGNATURES_INTERVAL)]
            /\ UNCHANGED <<last_big_outflow_time, alert_sent>>

PollDue(t) ==
    /\ Runnable(t, "poll", "sleeping")
    /\ now >= tasks[t].wake

\* The fetches that raise in a run: the first of them ends the run, so one
\* is enough.
BadChoices(sigs, ok) == {{}} \cup {{sig} : sig \in Unseen(sigs) \ ok}

\* v.py:82-114: one poll cycle for the list `listed`, from the request to
\* the first suspension.
poll_cycle(t, listed, ok, bad) ==
    /\ PollDue(t)
    /\ poll_step(t, poll_run(<<>>, listed, tasks[t].pubkey, ok, bad))
    /\ UNCHANGED <<now, USE_WEBSOCKETS, alert_chat_id, monitor_task, monitor_pubkey, stopped>>

poll_signatures(t) ==
    /\ PollDue(t)
    /\ \E listed \in SigLists :
       \E ok \in SUBSET Unseen(listed) :
          \E bad \in BadChoices(listed, ok) : poll_cycle(t, listed, ok, bad)

\* v.py:90, 112-114: the request fails; the error is reported and the task
\* sleeps until the next cycle.
poll_request_fail(t) ==
    /\ PollDue(t)
    /\ tasks' = [tasks EXCEPT ![t] = Sleep(@, POLL_SIGNATURES_INTERVAL)]
    /\ UNCHANGED <<now, USE_WEBSOCKETS, alert_chat_id, monitor_task, monitor_pubkey,
                   last_big_outflow_time, alert_sent, processed_sigs, stopped, admitted>>

\* v.py:130 returns inside the cycle: the walk goes on.
poll_resume(t) ==
    /\ Runnable(t, "poll", "found_msg")
    /\ \E ok \in SUBSET Unseen(tasks[t].sigs) :
       \E bad \in BadChoices(tasks[t].sigs, ok) :
         poll_step(t, poll_run(tasks[t].todo, tasks[t].sigs, tasks[t].pubkey, ok, bad))
    /\ UNCHANGED <<now, USE_WEBSOCKETS, alert_chat_id, monitor_task, monitor_pubkey, stopped>>

(***************************************************************************)
(* The system.                                                             *)
(***************************************************************************)
Next ==
    \/ Advance
    \/ \E w \in POSSIBLE_WALLETS : wallet_selected(w)
    \/ stop
    \/ \E t \in TaskIds : Cancelled(t)
    \/ \E t \in TaskIds : subscribe_account(t)
    \/ \E t \in TaskIds : subscribe_account_end(t)
    \/ \E t \in TaskIds : spawn_background(t)
    \/ \E t \in TaskIds : ws_error(t)
    \/ \E t \in TaskIds : ws_close(t)
    \/ \E t \in TaskIds : ws_message(t)
    \/ \E t \in TaskIds : ws_resume(t)
    \/ \E t \in TaskIds : ws_restart(t)
    \/ \E t \in TaskIds : check_elapsed_loop(t)
    \/ \E t \in TaskIds : check_elapsed_latch(t)
    \/ \E t \in TaskIds : poll_signatures(t)
    \/ \E t \in TaskIds : poll_request_fail(t)
    \/ \E t \in TaskIds : poll_resume(t)

Spec == Init /\ [][Next]_vars

(***************************************************************************)
(* What a step shows of the notifications: a task that enters a send.      *)
(***************************************************************************)
\* The tick task t hands an alert to the bot (v.py:140).
AlertBy(t) == tasks[t].pc = "sleeping" /\ tasks'[t].pc = "alert_msg"

\* Task t applies a qualifying transfer and reports it (v.py:128-130).
FoundBy(t) == tasks'[t].pc = "found_msg" /\ tasks'[t] # tasks[t]

\* A step of task t: the disjuncts of Next for t.
TaskStep(t) ==
    \/ Cancelled(t)
    \/ subscribe_account(t)
    \/ subscribe_account_end(t)
    \/ spawn_background(t)
    \/ ws_error(t)
    \/ ws_close(t)
    \/ ws_message(t)
    \/ ws_resume(t)
    \/ ws_restart(t)
    \/ check_elapsed_loop(t)
    \/ check_elapsed_latch(t)
    \/ poll_signatures(t)
    \/ poll_request_fail(t)
    \/ poll_resume(t)

\* Task t belongs to a target that a later assignment has superseded.
Stale(t) == tasks[t].gen < CurrentGen

\* Task t belongs to a superseded target, and the target now assigned is
\* another account.
Superseded(t) == Stale(t) /\ tasks[t].pubkey # tasks[monitor_task].pubkey

\* A transaction record arrives at task t, from the stream or from the poll.
Arrival(t) == ws_message(t) \/ ws_resume(t) \/ poll_signatures(t) \/ poll_resume(t)

(***************************************************************************)
(* C1.  Once alert_sent is true, no timer tick hands a further alert to    *)
(* the bot: the tick is a no-op until a qualifying transfer clears the     *)
(* latch.                                                                  *)
(***************************************************************************)
C1_LatchedTickIsSilent ==
    [][alert_sent => \A t \in TaskIds : ~AlertBy(t)]_vars

(***************************************************************************)
(* C2.  For the current target a signature passes the dedup test at most   *)
(* once: a signature already admitted by a task of the target is not       *)
(* admitted (resolved, classified) again by a task of the target.          *)
(***************************************************************************)
C2_EvaluatedAtMostOnce ==
    [][\A t \in TaskIds :
          (~Stale(t) /\ Arrival(t))
              => (processed_sigs' \ processed_sigs) \cap admitted = {}]_vars

(***************************************************************************)
(* C3.  The first run of a subscription that the reconnect logic started   *)
(* leaves processed_sigs, last_big_outflow_time and alert_sent as they     *)
(* were.                                                                   *)
(***************************************************************************)
C3_RestartKeepsState ==
    [][\A t \in TaskIds :
          (tasks[t].origin = "restart" /\ subscribe_account(t))
              => UNCHANGED <<processed_sigs, last_big_outflow_time, alert_sent>>]_vars

(***************************************************************************)
(* C4.  A step of a task of a superseded account changes none of           *)
(* processed_sigs, last_big_outflow_time, alert_sent, and sends neither an *)
(* alert nor a transfer notice.                                            *)
(***************************************************************************)
C4_StaleTasksAreInert ==
    [][\A t \in TaskIds :
          (Superseded(t) /\ TaskStep(t))
              => /\ UNCHANGED <<processed_sigs, last_big_outflow_time, alert_sent>>
                 /\ ~AlertBy(t)
                 /\ ~FoundBy(t)]_vars

(***************************************************************************)
(* C5.  While stopped (after /stop, before the next assignment) no tick    *)
(* hands an alert to the bot and no arriving record changes                *)
(* processed_sigs, last_big_outflow_time or alert_sent.                    *)
(***************************************************************************)
C5_StoppedIsQuiet ==
    [][(stopped /\ stopped')
          => \A t \in TaskIds :
                /\ ~AlertBy(t)
                /\ Arrival(t) => UNCHANGED <<processed_sigs, last_big_outflow_time,
                                             alert_sent>>]_vars

(***************************************************************************)
(* C6.  No subscription is started for a superseded account: no task of a  *)
(* superseded account begins subscribe_account, and every subscription     *)
(* task a step creates is for the target that is current after the step.   *)
(***************************************************************************)
C6_NoSubscriptionForSuperseded ==
    [][/\ \A t \in TaskIds : Superseded(t) => ~subscribe_account(t)
       /\ \A i \in (Len(tasks) + 1)..Len(tasks') :
             tasks'[i].kind = "monitor"
                => \/ tasks'[i].gen = tasks'[monitor_task'].gen
                   \/ tasks'[i].pubkey = tasks'[monitor_task'].pubkey]_vars

(***************************************************************************)
(* C7.  Without the websockets module, once subscribe_account has ended    *)
(* for the assigned target, a poller and a tick task of that target exist. *)
(***************************************************************************)
C7_PullOnlyStillWatches ==
    (/\ ~USE_WEBSOCKETS
     /\ monitor_task # 0
     /\ tasks[monitor_task].pc = "done")
        => /\ \E t \in TaskIds : tasks[t].kind = "poll" /\ tasks[t].gen = CurrentGen
           /\ \E t \in TaskIds : tasks[t].kind = "tick" /\ tasks[t].gen = CurrentGen

(***************************************************************************)
(* C8.  While a target is assigned and not stopped, its push channel is    *)
(* open or on its way to be opened again: a subscription task of the       *)
(* target is alive (starting, listening, or in the backoff sleep before    *)
(* the restart).  Without such a task the channel is never opened again.   *)
(***************************************************************************)
C8_ChannelIsReopened ==
    (USE_WEBSOCKETS /\ monitor_task # 0 /\ ~stopped)
        => \E t \in TaskIds :
              /\ tasks[t].kind = "monitor"
              /\ tasks[t].gen = CurrentGen
              /\ ~IsDone(t)

(***************************************************************************)
(* C9.  An alert is handed to the bot only when                            *)
(* now - last_big_outflow_time >= PAUSE_THRESHOLD; a qualifying transfer   *)
(* sets last_big_outflow_time to the time it is applied, and               *)
(* last_big_outflow_time never goes back.  So no alert is sent before      *)
(* PAUSE_THRESHOLD has passed since the last qualifying transfer.          *)
(***************************************************************************)
C9_AlertOnlyAfterPause ==
    [][/\ \A t \in TaskIds : AlertBy(t) => now - last_big_outflow_time >= PAUSE_THRESHOLD
       /\ \A t \in TaskIds : FoundBy(t) => last_big_outflow_time' = now
       /\ last_big_outflow_time' >= last_big_outflow_time]_vars

\* A tick has sent an alert at time 80 for a timer that was reset at 40.
C9_Witness ==
    \E t \in TaskIds :
        /\ tasks[t].pc = "alert_msg"
        /\ last_big_outflow_time = PAUSE_THRESHOLD
        /\ now = 2 * PAUSE_THRESHOLD
        /\ processed_sigs # {}

(***************************************************************************)
(* C10.  The step that assigns a target leaves processed_sigs empty,       *)
(* alert_sent false and last_big_outflow_time equal to the time of the     *)
(* assignment.                                                             *)
(***************************************************************************)
C10_AssignmentResetsState ==
    [][monitor_task' # monitor_task
          => /\ processed_sigs' = {}
             /\ alert_sent' = FALSE
             /\ last_big_outflow_time' = now']_vars

\* A second target has just been assigned, at a time other than zero, while
\* a task of the first target is in the middle of a record.
C10_Witness ==
    /\ monitor_task > 1
    /\ tasks[monitor_task].pc = "start"
    /\ now > 0
    /\ processed_sigs = {} /\ ~alert_sent /\ last_big_outflow_time = now
    /\ \E t \in TaskIds : Stale(t) /\ tasks[t].pc = "found_msg"

(***************************************************************************)
(* Classification, stated on the ledger.                                   *)
(***************************************************************************)
\* Task t admits sig alone in this step, the fetch returns its record, and
\* the record is classified: one message of the stream, or a poll cycle
\* whose list is that one signature.
Resolved(t, sig) ==
    /\ sig \notin processed_sigs
    /\ sig \in processed_sigs'
    /\ \/ ws_deliver(t, sig, "record")
       \/ poll_cycle(t, <<sig>>, {sig}, {})

ElementsOf(list) == {list[i] : i \in DOMAIN list}
TopInstrs(sig) == ElementsOf(Ledger(sig).instructions)
InnerInstrs(sig) ==
    UNION {ElementsOf(Ledger(sig).innerInstructions[g]) :
              g \in DOMAIN Ledger(sig).innerInstructions}
AllInstrs(sig) == TopInstrs(sig) \cup InnerInstrs(sig)

\* A system transfer whose amount field is an integer of at least 0.5 SOL.
LargeTransfer(instr) ==
    /\ instr.program = "system"
    /\ instr.type = "transfer"
    /\ instr.lamportsOk
    /\ instr.lamports >= 500000000

TimerReset(t) == last_big_outflow_time' = now /\ alert_sent' = FALSE /\ FoundBy(t)

(***************************************************************************)
(* C11.  A record that holds a system transfer of at least the threshold   *)
(* to or from the target resets the timer when it is classified: a         *)
(* transfer counts when the target is its source and when the target is    *)
(* its destination.                                                        *)
(***************************************************************************)
C11_BothDirectionsQualify ==
    [][\A t \in TaskIds : \A sig \in Sigs :
          (/\ Resolved(t, sig)
           /\ \E instr \in AllInstrs(sig) :
                 /\ LargeTransfer(instr)
                 /\ \/ instr.source = tasks[t].pubkey
                    \/ instr.destination = tasks[t].pubkey)
              => TimerReset(t)]_vars

(***************************************************************************)
(* C12.  Classifying a record resets the timer exactly when the record     *)
(* holds a system transfer from the target whose amount is an integer of   *)
(* at least 500000000 lamports; otherwise (499999999 lamports, an amount   *)
(* that is not an integer) last_big_outflow_time and alert_sent are left   *)
(* as they were.                                                           *)
(***************************************************************************)
C12_ThresholdBoundary ==
    [][\A t \in TaskIds : \A sig \in Sigs :
          Resolved(t, sig)
              => IF \E instr \in AllInstrs(sig) :
                       LargeTransfer(instr) /\ instr.source = tasks[t].pubkey
                 THEN TimerReset(t)
                 ELSE /\ UNCHANGED <<last_big_outflow_time, alert_sent>>
                      /\ ~FoundBy(t)]_vars

\* A task of W1 has classified s1, whose top-level transfer from W1 is of
\* exactly 500000000 lamports, and has moved the timer: the tick that is
\* still in its send found the timer expired at this very time.
C12_Witness ==
    \E t, k \in TaskIds :
        /\ tasks[t].pubkey = "W1"
        /\ tasks[t].pc = "found_msg"
        /\ tasks[t].todo = <<<<>>>> \o Ledger("s1").innerInstructions
        /\ processed_sigs = {"s1"}
        /\ tasks[k].pc = "alert_msg"
        /\ Len(tasks) = TasksPerTarget
        /\ last_big_outflow_time = now
        /\ ~alert_sent

(***************************************************************************)
(* C13.  A record with no qualifying transfer in its top-level list and    *)
(* one in an inner group resets the timer when it is classified, from the  *)
(* stream and from the poll, whichever the inner group is.                 *)
(***************************************************************************)
C13_InnerTransfersAreSeen ==
    [][\A t \in TaskIds : \A sig \in Sigs :
          (/\ Resolved(t, sig)
           /\ \A instr \in TopInstrs(sig) :
                 ~(LargeTransfer(instr) /\ instr.source = tasks[t].pubkey)
           /\ \E instr \in InnerInstrs(sig) :
                 LargeTransfer(instr) /\ instr.source = tasks[t].pubkey)
              => TimerReset(t)]_vars

\* A task of W1 has classified s2, whose only qualifying transfer from W1
\* is in the second inner group, and has moved the timer: the tick that is
\* still in its send found the timer expired at this very time.
C13_Witness ==
    \E t, k \in TaskIds :
        /\ tasks[t].pubkey = "W1"
        /\ tasks[t].pc = "found_msg"
        /\ tasks[t].todo = <<<<>>>>
        /\ processed_sigs = {"s2"}
        /\ tasks[k].pc = "alert_msg"
        /\ Len(tasks) = TasksPerTarget
        /\ last_big_outflow_time = now

(***************************************************************************)
(* C14.  alert_sent is true only while no qualifying transfer has been     *)
(* applied since the alert.  For one target with no restart, where only    *)
(* the assignment and qualifying transfers set the timer: whenever         *)
(* alert_sent is true the timer is still expired.                          *)
(***************************************************************************)
C14_LatchOnlyWhileExpired ==
    (alert_sent /\ CurrentGen = 1 /\ Len(tasks) = TasksPerTarget)
        => now - last_big_outflow_time >= PAUSE_THRESHOLD

(***************************************************************************)
(* C15.  The transfers of one record are applied together: a task that is  *)
(* cancelled while it reports a transfer of a record has no qualifying     *)
(* transfer of that record left to apply.                                  *)
(***************************************************************************)
C15_RecordIsAppliedWhole ==
    [][\A t \in TaskIds :
          (tasks[t].pc = "found_msg" /\ Cancelled(t))
              => \A g \in DOMAIN tasks[t].todo :
                    \A instr \in ElementsOf(tasks[t].todo[g]) :
                       ~(LargeTransfer(instr) /\ instr.source = tasks[t].pubkey)]_vars

(***************************************************************************)
(* C16.  A record of unexpected shape is skipped alone: the stream reader  *)
(* that meets one stays subscribed, and a poll cycle that meets one still  *)
(* visits every other signature of its list before it sleeps.              *)
(***************************************************************************)
C16_MalformedRecordIsSkippedAlone ==
    [][\A t \in TaskIds :
          /\ \A sig \in Sigs \ processed_sigs :
                ws_deliver(t, sig, "bad") => tasks'[t].pc = "listening"
          /\ (PollDue(t) /\ tasks'[t].pc = "sleeping")
                => \A listed \in SigLists : \A bad \in BadChoices(listed, {}) :
                      poll_cycle(t, listed, {}, bad)
                          => Unseen(listed) \subseteq processed_sigs']_vars

(***************************************************************************)
(* C17.  When the delivery of the alert fails, alert_sent is set, the tick *)
(* task goes back to its sleep, and the state is the one a delivered       *)
(* alert leaves.                                                           *)
(***************************************************************************)
C17_FailedDeliveryStillLatches ==
    [][\A t \in TaskIds :
          check_elapsed_after_send(t, FALSE)
              => /\ alert_sent'
                 /\ tasks'[t].pc = "sleeping"
                 /\ check_elapsed_after_send(t, TRUE)]_vars

\* The send of an alert is over: the latch is set and the tick sleeps for
\* its next period.
C17_Witness ==
    \E t \in TaskIds :
        /\ tasks[t].kind = "tick"
        /\ tasks[t].pc = "sleeping"
        /\ tasks[t].wake = now + PAUSE_THRESHOLD
        /\ alert_sent
        /\ now - last_big_outflow_time >= PAUSE_THRESHOLD

(***************************************************************************)
(* C18.  While a target is watched and its timer has expired, an alert is  *)
(* on its way: a timer-tick task of the target is alive.  (Without one no  *)
(* alert is ever emitted.)  Watched: the target is assigned, not stopped,  *)
(* and its subscribe_account has got past its first notice.                *)
(***************************************************************************)
C18_ExpiredTimerHasATick ==
    (/\ monitor_task # 0
     /\ ~stopped
     /\ tasks[monitor_task].pc \notin {"start", "started_msg", "nows_msg", "cancelled"}
     /\ now - last_big_outflow_time >= PAUSE_THRESHOLD)
        => \E t \in TaskIds :
              /\ tasks[t].kind = "tick"
              /\ tasks[t].gen = CurrentGen
              /\ ~IsDone(t)

(***************************************************************************)
(* C19.  For one target at most one timer tick, one poller and one stream  *)
(* reader are alive, whatever the number of restarts.                      *)
(***************************************************************************)
C19_OneTaskOfEachKind ==
    \A kind \in {"tick", "poll", "monitor"} :
       \A t, u \in TaskIds :
          (/\ tasks[t].kind = kind /\ tasks[u].kind = kind
           /\ tasks[t].gen = tasks[u].gen
           /\ ~IsDone(t) /\ ~IsDone(u))
              => t = u

(***************************************************************************)
(* C20.  A signature that passes the dedup test is in processed_sigs after *)
(* the step, whatever its fetch returns, and a signature that is in        *)
(* processed_sigs is not fetched or classified again: its delivery, by the *)
(* stream or by the poll, changes neither the timer nor the dedup set and  *)
(* reports nothing.  (A message whose fetch returns nothing leaves every   *)
(* task as it was, and a poll cycle changes its own task: the formula      *)
(* looks at the steps of t only.)                                          *)
(***************************************************************************)
C20_FailedFetchStaysMarked ==
    [][\A t \in TaskIds :
          /\ tasks' = tasks
                => \A sig \in Sigs \ processed_sigs :
                      ws_deliver(t, sig, "none") => sig \in processed_sigs'
          /\ tasks'[t] # tasks[t]
                => \A sig \in Sigs :
                      /\ (sig \notin processed_sigs /\ poll_cycle(t, <<sig>>, {}, {}))
                            => sig \in processed_sigs'
                      /\ (sig \in processed_sigs /\ poll_cycle(t, <<sig>>, {sig}, {}))
                            => /\ UNCHANGED <<processed_sigs, last_big_outflow_time,
                                              alert_sent>>
                               /\ ~FoundBy(t)
          /\ \A sig \in processed_sigs :
                ws_deliver(t, sig, "record")
                    => /\ UNCHANGED <<processed_sigs, last_big_outflow_time, alert_sent>>
                       /\ ~FoundBy(t)]_vars

\* Both signatures are in the dedup set of W1, a poll cycle has just ended,
\* and the timer is where the assignment put it: the cycle applied nothing.
C20_Witness ==
    \E t \in TaskIds :
        /\ tasks[t].kind = "poll"
        /\ tasks[t].pubkey = "W1"
        /\ tasks[t].pc = "sleeping"
        /\ tasks[t].wake = now + POLL_SIGNATURES_INTERVAL
        /\ CurrentGen = 1
        /\ Len(tasks) = TasksPerTarget
        /\ processed_sigs = Sigs
        /\ last_big_outflow_time < now

====
